---------------------------- MODULE Spec2Model ----------------------------
(***************************************************************************)
(* Model of tools/validate_puzzles.py: the ChessPosition value (FEN        *)
(* decode / encode and apply_uci_move), StockfishEngine.analyze and        *)
(* validate_puzzle; of the engine sessions of tools/validate_puzzles.py    *)
(* (StockfishEngine) and of the two generator scripts (StockfishValidator); *)
(* and of the main of the three scripts, from the start of the engine on.  *)
(*                                                                         *)
(* A Python str is a sequence of one-character strings; a Python list of   *)
(* board rows is a sequence of addresses into `heap`, so that sharing of   *)
(* mutable rows between two positions is expressible.                      *)
(***************************************************************************)
EXTENDS Integers, Sequences, FiniteSets, TLC

VARIABLES
    heap,       \* Python heap of board rows: address -> list of squares
    positions,  \* every ChessPosition object constructed so far
    snap,       \* snap[k]: the value of positions[k] when it was constructed
    last,       \* the latest apply_uci_move call: source, move, outcome
    puzzle,     \* the record handed to validate_puzzle
    pc,         \* where validate_puzzle stands
    moves,      \* moves_str.split()
    i,          \* loop index of the mate-in-N loop (0-based, as in the code)
    cur,        \* index in positions of pos / current_pos
    calls,      \* engine.analyze calls issued so far: <<fen, depth>> records
    results,    \* the dict each of those calls returned
    applied,    \* how many claimed moves validate_puzzle has applied
    verdict,    \* the (is_valid, reason) tuple validate_puzzle returned
    impl,       \* the script whose engine class runs the session
    epc,        \* where the session's code stands
    sent,       \* commands written to the engine's stdin, in order
    n_lines,    \* len(lines) in the _wait_for in progress
    waits,      \* every _wait_for that has returned: its token, and if seen
    stream,     \* lines read by the analysis in progress, before bestmove
    eresult,    \* the result dict of the analysis in progress
    analyses,   \* analyze / validate_checkmate calls made on the session
    returned,   \* what the latest of them returned
    bestmoves,  \* bestmove lines the read loops have consumed
    process,    \* self.process: None, or the state of the engine process
    stops,      \* stop() calls made on the session
    raised,     \* the latest exception a call let through to its caller
    args,       \* the command line of the script, as argparse returns it
    mpc,        \* where main stands
    streamed,   \* records the loop of main has taken from its input
    targets,    \* targets[d] of the generators
    collected,  \* collected[d] of the generators
    valid_puzzles,  \* valid_puzzles of the generators
    processed,  \* processed of the generators
    invalid_count,  \* invalid_count of the generators
    main_results    \* results of the main of validate_puzzles.py

vars == <<heap, positions, snap, last, puzzle, pc, moves, i, cur, calls,
          results, applied, verdict, impl, epc, sent, n_lines, waits, stream,
          eresult, analyses, returned, bestmoves, process, stops, raised,
          args, mpc, streamed, targets, collected, valid_puzzles, processed,
          invalid_count, main_results>>

posVars == <<heap, positions, snap, last>>
valVars == <<puzzle, pc, moves, i, cur, calls, results, applied, verdict>>
engVars == <<impl, epc, sent, n_lines, waits, stream, eresult, analyses,
            returned, bestmoves, process, stops, raised>>
mainVars == <<args, mpc, streamed, targets, collected, valid_puzzles, processed,
             invalid_count, main_results>>

-----------------------------------------------------------------------------
(* Bounds of the model *)

\* apply_uci_move calls explored by the position specification
MaxApplies == 2
\* score lines an engine streams before its bestmove line
MaxInfoLines == 2
\* lines without the token read by a `while True` _wait_for
MaxWaitLines == 3
\* analyze / validate_checkmate calls on one session
MaxAnalyses == 2
\* stop() calls on one session
MaxStops == 2
\* records the loop of a main takes from its input
MaxRecords == 3

-----------------------------------------------------------------------------
(* Python values *)

None == "None"

Digits == <<"0", "1", "2", "3", "4", "5", "6", "7", "8", "9">>
LowerLetters == <<"a", "b", "c", "d", "e", "f", "g", "h", "i", "j", "k", "l", "m",
                  "n", "o", "p", "q", "r", "s", "t", "u", "v", "w", "x", "y", "z">>
UpperLetters == <<"A", "B", "C", "D", "E", "F", "G", "H", "I", "J", "K", "L", "M",
                  "N", "O", "P", "Q", "R", "S", "T", "U", "V", "W", "X", "Y", "Z">>

IndexIn(tbl, c) == IF \E k \in 1..Len(tbl) : tbl[k] = c
                   THEN CHOOSE k \in 1..Len(tbl) : tbl[k] = c
                   ELSE 0

isdigit(c) == IndexIn(Digits, c) > 0
isupper(c) == IndexIn(UpperLetters, c) > 0
islower(c) == IndexIn(LowerLetters, c) > 0
lower(c) == IF isupper(c) THEN LowerLetters[IndexIn(UpperLetters, c)] ELSE c
upper(c) == IF islower(c) THEN UpperLetters[IndexIn(LowerLetters, c)] ELSE c

\* ord() on the ASCII characters the model's strings are made of
ord(c) == CASE isdigit(c) -> 47 + IndexIn(Digits, c)
            [] isupper(c) -> 64 + IndexIn(UpperLetters, c)
            [] islower(c) -> 96 + IndexIn(LowerLetters, c)
            [] c = " " -> 32
            [] c = "-" -> 45
            [] c = "." -> 46
            [] c = "/" -> 47
            [] OTHER -> 63

\* chr() on the lower-case range, the only one apply_uci_move builds
chr(n) == IF n \in 97..122 THEN LowerLetters[n - 96] ELSE "?"

abs(n) == IF n < 0 THEN 0 - n ELSE n
max(a, b) == IF a >= b THEN a ELSE b

\* s[a:b] for 0 <= a <= b
Slice(s, a, b) == SubSeq(s, a + 1, IF b < Len(s) THEN b ELSE Len(s))

\* Resolve a Python index k on a list of length n to a 1-based index;
\* 0 stands for IndexError.  Negative indices count from the end.
PyIndex(n, k) == IF k >= 0 /\ k < n THEN k + 1
                 ELSE IF k < 0 /\ k >= 0 - n THEN n + k + 1
                 ELSE 0

\* str(n)
RECURSIVE NatToStr(_)
NatToStr(n) == IF n < 10 THEN <<Digits[n + 1]>>
               ELSE NatToStr(n \div 10) \o <<Digits[(n % 10) + 1]>>
str(n) == IF n < 0 THEN <<"-">> \o NatToStr(0 - n) ELSE NatToStr(n)

\* int(s): IsIntStr(s) is false where int() raises ValueError
AllDigits(s) == Len(s) > 0 /\ \A k \in 1..Len(s) : isdigit(s[k])
IsIntStr(s) == \/ AllDigits(s)
               \/ Len(s) > 1 /\ s[1] \in {"-", "+"} /\ AllDigits(Tail(s))
RECURSIVE DigitsToNat(_)
DigitsToNat(s) == IF Len(s) = 0 THEN 0
                  ELSE 10 * DigitsToNat(SubSeq(s, 1, Len(s) - 1))
                       + (IndexIn(Digits, s[Len(s)]) - 1)
int(s) == IF s[1] = "-" THEN 0 - DigitsToNat(Tail(s))
          ELSE IF s[1] = "+" THEN DigitsToNat(Tail(s))
          ELSE DigitsToNat(s)

\* s.split(sep): the pieces between separators, empty ones kept
RECURSIVE SplitOn(_, _)
SplitOn(s, sep) ==
    IF \A k \in 1..Len(s) : s[k] # sep THEN <<s>>
    ELSE LET k == CHOOSE k \in 1..Len(s) :
                      s[k] = sep /\ \A j \in 1..(k - 1) : s[j] # sep
         IN <<SubSeq(s, 1, k - 1)>> \o SplitOn(SubSeq(s, k + 1, Len(s)), sep)

\* s.split(): runs of non-blank characters, no empty piece
split(s) == SelectSeq(SplitOn(s, " "), LAMBDA w : Len(w) > 0)

\* s.replace(c, '')
Remove(s, c) == SelectSeq(s, LAMBDA x : x # c)

\* sep.join(parts)
RECURSIVE join(_, _)
join(sep, parts) == IF Len(parts) = 0 THEN <<>>
                    ELSE IF Len(parts) = 1 THEN parts[1]
                    ELSE parts[1] \o sep \o join(sep, Tail(parts))

\* An exception raised by the modelled call; no object is produced
Raise(kind) == [err |-> kind]

\* F applied to the value of v, v being evaluated once (a Python local)
Bind(v, F(_)) == CHOOSE y \in { F(x) : x \in {v} } : TRUE

-----------------------------------------------------------------------------
(* ChessPosition *)

\* The squares one FEN rank expands to (the inner loop of _parse_board)
RECURSIVE parse_rank(_)
parse_rank(rank) ==
    IF Len(rank) = 0 THEN <<>>
    ELSE LET char == Head(rank)
         IN (IF isdigit(char)
             THEN [k \in 1..(IndexIn(Digits, char) - 1) |-> "."]
             ELSE <<char>>) \o parse_rank(Tail(rank))

\* _parse_board: one row per '/'-separated piece, whatever their number
parse_board(board_str) ==
    LET ranks == SplitOn(board_str, "/")
    IN [r \in 1..Len(ranks) |-> parse_rank(ranks[r])]

\* Mutant: the empty squares that end a row are not written
RECURSIVE row_to_fen_unflushed(_, _, _)
row_to_fen_unflushed(row, k, empty_count) ==
    IF k > Len(row) THEN <<>>
    ELSE IF row[k] = "."
         THEN row_to_fen_unflushed(row, k + 1, empty_count + 1)
         ELSE (IF empty_count > 0 THEN str(empty_count) ELSE <<>>)
              \o <<row[k]>> \o row_to_fen_unflushed(row, k + 1, 0)

\* One row of _board_to_fen, from square k on with empty_count pending
RECURSIVE row_to_fen(_, _, _)
row_to_fen(row, k, empty_count) ==
    IF k > Len(row)
    THEN IF empty_count > 0 THEN str(empty_count) ELSE <<>>
    ELSE IF row[k] = "."
         THEN row_to_fen(row, k + 1, empty_count + 1)
         ELSE (IF empty_count > 0 THEN str(empty_count) ELSE <<>>)
              \o <<row[k]>> \o row_to_fen(row, k + 1, 0)

\* _board_to_fen on the rows of a board
board_to_fen(rows) ==
    join(<<"/">>, [r \in 1..Len(rows) |-> row_to_fen(rows[r], 1, 0)])

\* The rows a board (a list of row addresses) holds in heap h
Rows(h, board) == [r \in 1..Len(board) |-> h[board[r]]]

\* to_fen of position object p in heap h
to_fen(h, p) ==
    board_to_fen(Rows(h, p.board)) \o <<" ">> \o p.turn \o <<" ">> \o p.castling
        \o <<" ">> \o p.en_passant \o <<" ">> \o str(p.halfmove)
        \o <<" ">> \o str(p.fullmove)

\* The value of position object p: its fields with the rows read from h
Value(h, p) == [board |-> Rows(h, p.board), turn |-> p.turn,
                castling |-> p.castling, en_passant |-> p.en_passant,
                halfmove |-> p.halfmove, fullmove |-> p.fullmove, fen |-> p.fen]

\* Fresh rows appended to heap h; the board lists their addresses
Alloc(h, rows) ==
    Bind(rows, LAMBDA new : [heap |-> h \o new,
                             board |-> [r \in 1..Len(new) |-> Len(h) + r]])

\* ChessPosition.__init__(fen) in heap h
ChessPosition(h, fen) ==
    Bind(split(fen), LAMBDA parts :
    IF Len(parts) = 0 THEN Raise("IndexError")
    ELSE IF Len(parts) > 4 /\ ~IsIntStr(parts[5]) THEN Raise("ValueError")
    ELSE IF Len(parts) > 5 /\ ~IsIntStr(parts[6]) THEN Raise("ValueError")
    ELSE Bind(Alloc(h, parse_board(parts[1])), LAMBDA a :
            [err |-> None,
             heap |-> a.heap,
             pos |-> [board |-> a.board,
                      turn |-> IF Len(parts) > 1 THEN parts[2] ELSE <<"w">>,
                      castling |-> IF Len(parts) > 2 THEN parts[3] ELSE <<"-">>,
                      en_passant |-> IF Len(parts) > 3 THEN parts[4] ELSE <<"-">>,
                      halfmove |-> IF Len(parts) > 4 THEN int(parts[5]) ELSE 0,
                      fullmove |-> IF Len(parts) > 5 THEN int(parts[6]) ELSE 1,
                      fen |-> fen]]))

\* Mutant: new_board = [row for row in self.board], the rows not copied
copy_board_shared(h, board) == [heap |-> h, board |-> board]

\* new_board = [row[:] for row in self.board]
copy_board(h, board) == Alloc(h, Rows(h, board))

\* new_board[r][f] = v, r and f already resolved to 1-based indices
Store(h, board, r, f, v) == [h EXCEPT ![board[r]][f] = v]

\* Mutant: the promoted piece always written in upper case
promote_upper(old, promotion) ==
    IF promotion # None THEN upper(promotion) ELSE old

\* Handle promotion: the piece put on the destination
promote(old, promotion) ==
    IF promotion # None
    THEN IF isupper(old) THEN upper(promotion) ELSE lower(promotion)
    ELSE old

\* Handle castling: is the rook to be moved as well
is_castling(piece, from_file, to_file) ==
    lower(piece) = "k" /\ abs(to_file - from_file) = 2

\* Mutant: the rook is put beside the king, its corner square not vacated
move_rook_keep_corner(h, new_board, fr, kingside, rook) ==
    IF kingside THEN Store(h, new_board, fr, 6, rook)
    ELSE Store(h, new_board, fr, 4, rook)

\* Handle castling (move rook) on row fr of new_board
move_rook(h, new_board, fr, kingside, rook) ==
    IF kingside
    THEN Store(Store(h, new_board, fr, 8, "."), new_board, fr, 6, rook)
    ELSE Store(Store(h, new_board, fr, 1, "."), new_board, fr, 4, rook)

\* Handle en passant capture: is the move one
is_en_passant(piece, to_sq, en_passant) == lower(piece) = "p" /\ to_sq = en_passant

\* Mutant: the captured pawn looked for on the destination rank
captured_rank_of_target(from_rank, to_rank) == to_rank

\* The captured pawn is on the same rank as the moving pawn
captured_rank(from_rank, to_rank) == from_rank

\* Update castling rights
update_castling(castling, piece, from_sq) ==
    LET c1 == IF lower(piece) = "k"
              THEN IF isupper(piece)
                   THEN Remove(Remove(castling, "K"), "Q")
                   ELSE Remove(Remove(castling, "k"), "q")
              ELSE castling
        c2 == IF lower(piece) = "r"
              THEN IF from_sq = <<"a", "1">> THEN Remove(c1, "Q")
                   ELSE IF from_sq = <<"h", "1">> THEN Remove(c1, "K")
                   ELSE IF from_sq = <<"a", "8">> THEN Remove(c1, "q")
                   ELSE IF from_sq = <<"h", "8">> THEN Remove(c1, "k")
                   ELSE c1
              ELSE c1
    IN IF Len(c2) > 0 THEN c2 ELSE <<"-">>

\* Mutant: the en passant square named on the destination rank
update_en_passant_on_target(piece, from_rank, to_rank, to_file) ==
    IF lower(piece) = "p" /\ abs(to_rank - from_rank) = 2
    THEN <<chr(ord("a") + to_file)>> \o str(8 - to_rank)
    ELSE <<"-">>

\* Update en passant square
update_en_passant(piece, from_rank, to_rank, to_file) ==
    IF lower(piece) = "p" /\ abs(to_rank - from_rank) = 2
    THEN LET ep_rank == (from_rank + to_rank) \div 2
             ep_file == chr(ord("a") + to_file)
         IN <<ep_file>> \o str(8 - ep_rank)
    ELSE <<"-">>

\* new_pos.halfmove, target being self.board[to_rank][to_file]
update_halfmove(halfmove, piece, target) ==
    IF lower(piece) = "p" \/ target # "." THEN 0 ELSE halfmove + 1

\* Mutant: the fullmove number advanced by every move
update_fullmove_every_move(fullmove, turn) == fullmove + 1

\* new_pos.fullmove
update_fullmove(fullmove, turn) ==
    IF turn = <<"b">> THEN fullmove + 1 ELSE fullmove

\* new_pos.turn
flip_turn(turn) == IF turn = <<"w">> THEN <<"b">> ELSE <<"w">>

\* ChessPosition.apply_uci_move(uci) on position object self in heap h.
\* The result is an exception, or the heap after the call with the new object.
apply_uci_move(h, self, uci) ==
    LET from_sq == Slice(uci, 0, 2)
        to_sq == Slice(uci, 2, 4)
        promotion == IF Len(uci) > 4 THEN uci[5] ELSE None
    IN
    IF Len(from_sq) < 2 THEN Raise("IndexError")
    ELSE IF ~isdigit(from_sq[2]) THEN Raise("ValueError")
    ELSE IF Len(to_sq) < 2 THEN Raise("IndexError")
    ELSE IF ~isdigit(to_sq[2]) THEN Raise("ValueError")
    ELSE
    LET from_file == ord(from_sq[1]) - ord("a")
        from_rank == 8 - int(<<from_sq[2]>>)
        to_file == ord(to_sq[1]) - ord("a")
        to_rank == 8 - int(<<to_sq[2]>>)
    IN
    \* Create new position
    Bind(copy_board(h, self.board), LAMBDA c :
    LET new_board == c.board
        fr == PyIndex(Len(new_board), from_rank)
        ff == IF fr = 0 THEN 0 ELSE PyIndex(Len(c.heap[new_board[fr]]), from_file)
        tr == PyIndex(Len(new_board), to_rank)
        tf == IF tr = 0 THEN 0 ELSE PyIndex(Len(c.heap[new_board[tr]]), to_file)
    IN
    IF fr = 0 \/ ff = 0 \/ tr = 0 \/ tf = 0 THEN Raise("IndexError")
    ELSE
    LET piece == promote(c.heap[new_board[fr]][ff], promotion)
        castle == is_castling(piece, from_file, to_file)
        kingside == to_file > from_file
        rook == IF isupper(piece) THEN "R" ELSE "r"
        capture_ep == is_en_passant(piece, to_sq, self.en_passant)
        cr == PyIndex(Len(new_board), captured_rank(from_rank, to_rank))
        cf == PyIndex(Len(c.heap[new_board[cr]]), to_file)
        h1 == Store(c.heap, new_board, fr, ff, ".")
        h2 == Store(h1, new_board, tr, tf, piece)
        h3 == IF castle THEN move_rook(h2, new_board, fr, kingside, rook) ELSE h2
        h4 == IF capture_ep THEN Store(h3, new_board, cr, cf, ".") ELSE h3
    IN
    IF castle /\ Len(c.heap[new_board[fr]]) < (IF kingside THEN 8 ELSE 4)
    THEN Raise("IndexError")
    ELSE IF capture_ep /\ cf = 0 THEN Raise("IndexError")
    ELSE
    Bind(h4, LAMBDA hn :
        \* Create new position with updated state
        Bind([board |-> new_board,
              turn |-> flip_turn(self.turn),
              castling |-> update_castling(self.castling, piece, from_sq),
              en_passant |-> update_en_passant(piece, from_rank, to_rank, to_file),
              halfmove |-> update_halfmove(self.halfmove, piece,
                                           hn[self.board[tr]][tf]),
              fullmove |-> update_fullmove(self.fullmove, self.turn)],
             LAMBDA new_pos :
                 [err |-> None,
                  heap |-> hn,
                  pos |-> [board |-> new_pos.board, turn |-> new_pos.turn,
                           castling |-> new_pos.castling,
                           en_passant |-> new_pos.en_passant,
                           halfmove |-> new_pos.halfmove,
                           fullmove |-> new_pos.fullmove,
                           fen |-> to_fen(hn, new_pos)]])))

-----------------------------------------------------------------------------
(* StockfishEngine.analyze *)

\* Optional values that are not strings: () for None, (x) for x
Nothing == <<>>
Some(x) == <<x>>

\* line.startswith(prefix)
startswith(line, prefix) ==
    Len(line) >= Len(prefix) /\ SubSeq(line, 1, Len(prefix)) = prefix

\* word in line (substring test)
contains(line, word) ==
    \E k \in 0..(Len(line) - Len(word)) : SubSeq(line, k + 1, k + Len(word)) = word

\* line.strip() of blanks
RECURSIVE strip(_)
strip(line) == IF Len(line) > 0 /\ Head(line) = " " THEN strip(Tail(line))
               ELSE IF Len(line) > 0 /\ line[Len(line)] = " "
                    THEN strip(SubSeq(line, 1, Len(line) - 1))
               ELSE line

\* Protocol words
w_bestmove == <<"b", "e", "s", "t", "m", "o", "v", "e">>
w_none == <<"(", "n", "o", "n", "e", ")">>
w_info == <<"i", "n", "f", "o">>
w_depth == <<"d", "e", "p", "t", "h">>
w_score == <<"s", "c", "o", "r", "e">>
w_mate == <<"m", "a", "t", "e">>
w_cp == <<"c", "p">>

\* result = {"bestmove": None, "is_mate": False, "mate_in": None, "score_cp": None}
EmptyResult == [bestmove |-> Nothing, is_mate |-> FALSE,
                mate_in |-> Nothing, score_cp |-> Nothing]

\* Mutant: a score of a kind already recorded is not overwritten
score_line_first_wins(result, parts) ==
    LET score_idx == IndexIn(parts, w_score)
    IN IF score_idx = 0 \/ Len(parts) < score_idx + 2 THEN result
       ELSE IF parts[score_idx + 1] = w_mate /\ IsIntStr(parts[score_idx + 2])
            THEN IF result.mate_in # Nothing THEN result
                 ELSE [result EXCEPT !.is_mate = TRUE,
                                     !.mate_in = Some(int(parts[score_idx + 2]))]
       ELSE IF parts[score_idx + 1] = w_cp /\ IsIntStr(parts[score_idx + 2])
            THEN IF result.score_cp # Nothing THEN result
                 ELSE [result EXCEPT !.score_cp = Some(int(parts[score_idx + 2]))]
       ELSE result

\* The body of the try block for one "info ... score ..." line
score_line(result, parts) ==
    LET score_idx == IndexIn(parts, w_score)
    IN IF score_idx = 0 THEN result                          \* ValueError
       ELSE IF Len(parts) < score_idx + 1 THEN result         \* IndexError
       ELSE IF parts[score_idx + 1] = w_mate
            THEN IF Len(parts) >= score_idx + 2 /\ IsIntStr(parts[score_idx + 2])
                 THEN [result EXCEPT !.is_mate = TRUE,
                                     !.mate_in = Some(int(parts[score_idx + 2]))]
                 ELSE [result EXCEPT !.is_mate = TRUE]       \* raised after the flag
       ELSE IF parts[score_idx + 1] = w_cp
            THEN IF Len(parts) >= score_idx + 2 /\ IsIntStr(parts[score_idx + 2])
                 THEN [result EXCEPT !.score_cp = Some(int(parts[score_idx + 2]))]
                 ELSE result
       ELSE result

\* The terminal line: result["bestmove"] = parts[1] unless absent or "(none)"
bestmove_line(result, line) ==
    LET parts == split(line)
    IN IF Len(parts) >= 2 /\ parts[2] # w_none
       THEN [result EXCEPT !.bestmove = Some(parts[2])]
       ELSE result

\* The read loop of analyze over the lines the engine streams, up to and
\* including the first bestmove line
RECURSIVE read_lines(_, _)
read_lines(result, lines) ==
    IF Len(lines) = 0 THEN result
    ELSE LET line == strip(Head(lines))
         IN IF startswith(line, w_bestmove) THEN bestmove_line(result, line)
            ELSE IF startswith(line, w_info) /\ contains(line, w_score)
                 THEN read_lines(score_line(result, split(line)), Tail(lines))
            ELSE read_lines(result, Tail(lines))

\* analyze(fen, depth) given the engine's answer to the search command
analyze(response) == read_lines(EmptyResult, response)

\* Lines an engine may stream
Line(words) == join(<<" ">>, words)
InfoLines ==
    { Line(<<w_info, w_depth, <<"0">>, w_score, w_mate, <<"0">>>>),
      Line(<<w_info, w_depth, <<"9">>, w_score, w_mate, <<"-", "1">>>>),
      Line(<<w_info, w_depth, <<"9">>, w_score, w_mate, <<"2">>>>),
      Line(<<w_info, w_depth, <<"9">>, w_score, w_cp, <<"2", "5">>>>),
      Line(<<w_info, w_depth, <<"9">>, w_score, w_mate>>) }
BestLines ==
    { Line(<<w_bestmove, w_none>>),
      Line(<<w_bestmove, <<"e", "2", "e", "4">>>>) }

\* An answer: at most MaxInfoLines score lines, then the bestmove line
Responses ==
    { info \o <<best>> :
        info \in UNION { [1..n -> InfoLines] : n \in 0..MaxInfoLines },
        best \in BestLines }

\* Every dict analyze can return on those answers
AnalyzeResults == { analyze(r) : r \in Responses }

-----------------------------------------------------------------------------
(* Inputs *)

\* 6k1/5ppp/8/8/8/8/5PPP/R5K1 w - - 0 1
Fen_BackRank ==
    <<"6", "k", "1", "/", "5", "p", "p", "p", "/", "8", "/", "8", "/", "8", "/",
      "8", "/", "5", "P", "P", "P", "/", "R", "5", "K", "1",
      " ", "w", " ", "-", " ", "-", " ", "0", " ", "1">>

\* r3k2r/1P2p3/8/3pP3/5p2/8/4P3/R3K2R w KQkq d6 9 1
Fen_White ==
    <<"r", "3", "k", "2", "r", "/", "1", "P", "2", "p", "3", "/", "8", "/",
      "3", "p", "P", "3", "/", "5", "p", "2", "/", "8", "/", "4", "P", "3", "/",
      "R", "3", "K", "2", "R",
      " ", "w", " ", "K", "Q", "k", "q", " ", "d", "6", " ", "9", " ", "1">>

\* r3k2r/4p3/8/8/3Pp3/8/1p6/R3K2R b KQkq d3 0 9
Fen_Black ==
    <<"r", "3", "k", "2", "r", "/", "4", "p", "3", "/", "8", "/", "8", "/",
      "3", "P", "p", "3", "/", "8", "/", "1", "p", "6", "/",
      "R", "3", "K", "2", "R",
      " ", "b", " ", "K", "Q", "k", "q", " ", "d", "3", " ", "0", " ", "9">>

\* 4k3/8/8/8/8/8/8/4K2R  (trailing fields omitted)
Fen_BoardOnly ==
    <<"4", "k", "3", "/", "8", "/", "8", "/", "8", "/", "8", "/", "8", "/",
      "8", "/", "4", "K", "2", "R">>

\* 6k1/5ppp/8/8/8/8/5PPP/R5K1 w - - x 1  (halfmove field not a number)
Fen_BadClock ==
    <<"6", "k", "1", "/", "5", "p", "p", "p", "/", "8", "/", "8", "/", "8", "/",
      "8", "/", "5", "P", "P", "P", "/", "R", "5", "K", "1",
      " ", "w", " ", "-", " ", "-", " ", "x", " ", "1">>

\* 6k1/5ppp/8/8/8/8/5PPP/R4xK1 w - - 0 1  (x is no piece letter)
Fen_BadLetter ==
    <<"6", "k", "1", "/", "5", "p", "p", "p", "/", "8", "/", "8", "/", "8", "/",
      "8", "/", "5", "P", "P", "P", "/", "R", "4", "x", "K", "1",
      " ", "w", " ", "-", " ", "-", " ", "0", " ", "1">>

\* Well-formed starting positions of the position specification
StartFens == {Fen_BackRank, Fen_White, Fen_Black, Fen_BoardOnly}

\* Moves handed to apply_uci_move
Uci(a, b, c, d) == <<a, b, c, d>>
Moves ==
    { Uci("e", "1", "g", "1"), Uci("e", "1", "c", "1"),      \* white castles
      Uci("e", "8", "g", "8"), Uci("e", "8", "c", "8"),      \* black castles
      Uci("e", "5", "d", "6"), Uci("e", "4", "d", "3"),      \* en passant
      Uci("f", "4", "e", "3"),
      Uci("e", "2", "e", "4"), Uci("e", "7", "e", "5"),      \* double advance
      Uci("b", "7", "b", "8") \o <<"q">>,                    \* promotion
      Uci("b", "2", "a", "1") \o <<"n">>,                    \* capture-promotion
      Uci("a", "1", "a", "8"), Uci("h", "8", "h", "1"),      \* rook moves
      Uci("e", "1", "e", "2"),                               \* plain king move
      Uci("g", "8", "f", "8"),
      Uci("a", "3", "a", "4"),                               \* empty source
      <<"a", "1">> }                                         \* too short

\* Records handed to validate_puzzle
PuzzleFens == {Fen_BackRank, Fen_BadClock, Fen_BadLetter, <<>>}
PuzzleMoves ==
    { <<"a", "1", "a", "8">>,
      <<"a", "1", "a", "7", " ", "g", "8", "f", "8", " ", "a", "7", "a", "8">>,
      <<"a", "1", "a", "7", " ", "g", "8", "f", "8", " ", "a", "7", "a", "1",
        " ", "f", "8", "g", "8">>,
      <<"a", "1", "a", "7", " ", "a", "1">>,
      <<" ">>,
      <<>> }
PuzzleMateIns == {1, 2, 3}
\* type(puzzle["moves"]): a JSON record may hold a string or a list there.
\* A list of moves is modelled by the string its items joined by blanks make.
PuzzleMovesTypes == {"str", "list"}
Puzzles ==
    { p \in [fen : PuzzleFens, moves : PuzzleMoves, moves_type : PuzzleMovesTypes,
             mate_in : PuzzleMateIns] :
        p.moves_type = "list" => p.moves # <<" ">> }

-----------------------------------------------------------------------------
(* The heap of position objects *)

NoApply == [src |-> 0, move |-> <<>>, err |-> None, dst |-> 0]

\* The heap, the objects and their construction-time values, as one record
World == [heap |-> heap, positions |-> positions, snap |-> snap, last |-> last]

\* w after positions[src].apply_uci_move(uci); an exception builds no object
DoApply(w, src, uci) ==
    Bind(apply_uci_move(w.heap, w.positions[src], uci), LAMBDA r :
    IF r.err # None
    THEN [w EXCEPT !.last = [src |-> src, move |-> uci, err |-> r.err, dst |-> 0]]
    ELSE [heap |-> r.heap,
          positions |-> Append(w.positions, r.pos),
          snap |-> Append(w.snap, Value(r.heap, r.pos)),
          last |-> [src |-> src, move |-> uci, err |-> None,
                    dst |-> Len(w.positions) + 1]])

SetWorld(w) ==
    /\ heap' = w.heap
    /\ positions' = w.positions
    /\ snap' = w.snap
    /\ last' = w.last

-----------------------------------------------------------------------------
(* Engine sessions: StockfishEngine of validate_puzzles.py and the         *)
(* StockfishValidator of generate_puzzle_dataset.py and                    *)
(* generate_massive_puzzles.py                                             *)

Impls == {"validate_puzzles", "generate_puzzle_dataset", "generate_massive_puzzles"}

\* _wait_for(expected, timeout_lines=100) of the generators
timeout_lines == 100

\* Tokens the handshake waits for
w_uciok == <<"u", "c", "i", "o", "k">>
w_readyok == <<"r", "e", "a", "d", "y", "o", "k">>

\* Lines an engine may write while a _wait_for reads: the tokens, an
\* identification line, and the empty line readline() gives at end of output
HandshakeLines == { w_uciok, w_readyok, Line(<<<<"i", "d">>, <<"n", "a", "m", "e">>>>), <<>> }

\* Lines an engine may stream after a search command, before bestmove
StreamLines ==
    { Line(<<w_info, w_depth, <<"1">>, w_score, w_mate, <<"2">>>>),
      Line(<<w_info, w_depth, <<"2">>, w_score, w_mate, <<"-", "1">>>>),
      Line(<<w_info, w_depth, <<"1">>, w_score, w_cp, <<"2", "5">>>>),
      Line(<<w_info, w_depth, <<"2">>, w_score, w_cp, <<"-", "3", "0">>>>),
      Line(<<w_info, w_depth, <<"3">>, w_score, w_mate>>),
      Line(<<w_info, w_depth, <<"3">>, w_score, w_cp, <<"x">>>>),
      Line(<<w_info, w_depth, <<"4">>>>) }

\* No exception, and the exception exc let through by the call
NoException == [call |-> "", exc |-> None]
Exception(call, exc) == [call |-> call, exc |-> exc]

\* No session yet: the engine object as __init__ leaves it
NoSession ==
    /\ epc = "new"
    /\ sent = <<>>
    /\ n_lines = 0
    /\ waits = <<>>
    /\ stream = <<>>
    /\ eresult = EmptyResult
    /\ analyses = 0
    /\ returned = Nothing
    /\ bestmoves = 0
    /\ process = None
    /\ stops = 0
    /\ raised = NoException

\* self._send(command) for each command in turn
Send(commands) == sent' = sent \o commands

\* start() / _start() up to its first _wait_for
Start ==
    /\ epc = "new"
    /\ Send(<<"uci">>)
    /\ epc' = "wait_uciok"
    /\ n_lines' = 0
    /\ process' = "running"
    /\ UNCHANGED <<impl, waits, stream, eresult, analyses, returned, bestmoves,
                   stops, raised>>

\* The token the _wait_for in progress was called with
Expected == IF epc = "wait_uciok" THEN w_uciok ELSE w_readyok

\* The code that follows a _wait_for once it has returned
AfterWait ==
    CASE epc = "wait_uciok" ->
            /\ Send(IF impl = "generate_massive_puzzles"
                    THEN <<"setoption", "setoption", "isready">>
                    ELSE <<"isready">>)
            /\ epc' = "wait_readyok"
            /\ UNCHANGED stream
      [] epc = "wait_readyok" ->
            /\ epc' = "ready"
            /\ UNCHANGED <<sent, stream>>
      [] OTHER ->
            /\ Send(<<"position", "go">>)
            /\ epc' = "go"
            /\ stream' = <<>>

\* One readline() of _wait_for. StockfishEngine loops `while True`; the
\* generators loop `for _ in range(timeout_lines)` and return when the range
\* is used up.
WaitLine(line) ==
    /\ epc \in {"wait_uciok", "wait_readyok", "vc_readyok"}
    /\ \E found \in {startswith(strip(line), Expected)} :
          /\ (impl = "validate_puzzles" /\ ~found) => n_lines < MaxWaitLines
          /\ IF found \/ (impl # "validate_puzzles" /\ n_lines + 1 = timeout_lines)
             THEN /\ waits' = Append(waits, [expected |-> Expected, found |-> found])
                  /\ n_lines' = 0
                  /\ AfterWait
             ELSE /\ n_lines' = n_lines + 1
                  /\ UNCHANGED <<epc, sent, waits, stream>>
    /\ UNCHANGED <<impl, eresult, analyses, returned, bestmoves, process, stops,
                   raised>>

\* self._send(command) on a process that has exited: flush() raises, and
\* the call in progress lets the exception through
BrokenPipe(call) ==
    /\ raised' = Exception(call, "BrokenPipeError")
    /\ UNCHANGED <<epc, sent, n_lines, stream, eresult, analyses, process>>

\* StockfishEngine.analyze up to its read loop
Analyze ==
    /\ impl = "validate_puzzles"
    /\ epc = "ready"
    /\ analyses < MaxAnalyses
    /\ IF process = "exited"
       THEN BrokenPipe("analyze")
       ELSE /\ analyses' = analyses + 1
            /\ Send(<<"ucinewgame", "position", "go">>)
            /\ eresult' = EmptyResult
            /\ stream' = <<>>
            /\ epc' = "go"
            /\ UNCHANGED <<n_lines, process, raised>>
    /\ UNCHANGED <<impl, waits, returned, bestmoves, stops>>

\* StockfishValidator.validate_checkmate up to its _wait_for
ValidateCheckmate ==
    /\ impl # "validate_puzzles"
    /\ epc = "ready"
    /\ analyses < MaxAnalyses
    /\ IF process = "exited"
       THEN BrokenPipe("validate_checkmate")
       ELSE /\ analyses' = analyses + 1
            /\ Send(<<"ucinewgame", "isready">>)
            /\ n_lines' = 0
            /\ stream' = <<>>
            /\ epc' = "vc_readyok"
            /\ UNCHANGED <<eresult, process, raised>>
    /\ UNCHANGED <<impl, waits, returned, bestmoves, stops>>

\* The body of analyze's read loop for a line that is not the bestmove line
read_step(res, line) ==
    IF startswith(line, w_info) /\ contains(line, w_score)
    THEN score_line(res, split(line))
    ELSE res

\* What validate_checkmate returns on the bestmove line
checkmate_return(line) ==
    IF impl = "generate_puzzle_dataset"
    THEN IF contains(line, w_none) THEN <<TRUE, "Checkmate">>
                                   ELSE <<FALSE, "Has moves">>
    ELSE contains(line, w_none)

\* Mutant: the read loop ends on the first line it reads, whatever it is
ReadLine_first_line_ends(raw) ==
    /\ epc = "go"
    /\ \E line \in {strip(raw)} :
          /\ epc' = "ready"
          /\ bestmoves' = IF startswith(line, w_bestmove)
                          THEN bestmoves + 1 ELSE bestmoves
          /\ IF impl = "validate_puzzles"
             THEN /\ eresult' = bestmove_line(eresult, line)
                  /\ returned' = Some(bestmove_line(eresult, line))
             ELSE /\ returned' = Some(checkmate_return(line))
                  /\ UNCHANGED eresult
          /\ UNCHANGED stream
    /\ UNCHANGED <<impl, sent, n_lines, waits, analyses, process, stops, raised>>

\* One readline() of the read loop of analyze / validate_checkmate
ReadLine(raw) ==
    /\ epc = "go"
    /\ \E line \in {strip(raw)} :
          IF startswith(line, w_bestmove)
          THEN /\ epc' = "ready"
               /\ bestmoves' = bestmoves + 1
               /\ IF impl = "validate_puzzles"
                  THEN /\ eresult' = bestmove_line(eresult, line)
                       /\ returned' = Some(bestmove_line(eresult, line))
                  ELSE /\ returned' = Some(checkmate_return(line))
                       /\ UNCHANGED eresult
               /\ UNCHANGED stream
          ELSE /\ Len(stream) < MaxInfoLines
               /\ stream' = Append(stream, raw)
               /\ eresult' = IF impl = "validate_puzzles"
                            THEN read_step(eresult, line) ELSE eresult
               /\ UNCHANGED <<epc, returned, bestmoves>>
    /\ UNCHANGED <<impl, sent, n_lines, waits, analyses, process, stops, raised>>

\* The engine process ends by itself while no call is in progress
Exit ==
    /\ epc = "ready"
    /\ process = "running"
    /\ process' = "exited"
    /\ UNCHANGED <<impl, epc, sent, n_lines, waits, stream, eresult, analyses,
                   returned, bestmoves, stops, raised>>

\* stop(): if self.process: self._send("quit"); self.process.wait();
\* self.process = None.  A Popen object is true whether or not its process
\* still runs.
Stop ==
    /\ epc \in {"new", "ready", "stopped"}
    /\ stops < MaxStops
    /\ stops' = stops + 1
    /\ CASE process = None ->
              UNCHANGED <<epc, sent, process, raised>>
         [] process = "running" ->
              /\ Send(<<"quit">>)
              /\ process' = None
              /\ epc' = "stopped"
              /\ UNCHANGED raised
         [] OTHER ->
              /\ raised' = Exception("stop", "BrokenPipeError")
              /\ UNCHANGED <<epc, sent, process>>
    /\ UNCHANGED <<impl, n_lines, waits, stream, eresult, analyses, returned,
                   bestmoves>>

-----------------------------------------------------------------------------
(* validate_puzzle *)

NoPuzzle == [fen |-> <<>>, moves |-> <<>>, moves_type |-> "str", mate_in |-> 0]
NoVerdict == [valid |-> FALSE, reason |-> "", ply |-> 0, move |-> <<>>, error |-> None]

\* The tuples validate_puzzle returns
Valid(reason) == [valid |-> TRUE, reason |-> reason, ply |-> 0, move |-> <<>>,
                  error |-> None]
Invalid(reason) == [valid |-> FALSE, reason |-> reason, ply |-> 0, move |-> <<>>,
                    error |-> None]
InvalidAt(reason, ply, move) == [valid |-> FALSE, reason |-> reason, ply |-> ply,
                                 move |-> move, error |-> None]
Caught(kind) == [valid |-> FALSE, reason |-> "Error", ply |-> 0, move |-> <<>>,
                 error |-> kind]

Return(v) == verdict' = v /\ pc' = "done"

\* validate_puzzle raises: the exception leaves the call, no tuple is returned
Propagate(kind) == verdict' = [NoVerdict EXCEPT !.error = kind] /\ pc' = "raised"

\* result["bestmove"] is None or (result["is_mate"] and result.get("mate_in", 999) <= 0);
\* comparing a mate_in of None with 0 raises TypeError
mated(result) ==
    IF result.bestmove = Nothing THEN "true"
    ELSE IF ~result.is_mate THEN "false"
    ELSE IF result.mate_in = Nothing THEN "TypeError"
    ELSE IF result.mate_in[1] <= 0 THEN "true" ELSE "false"

\* Mutant: the starting position rejected on a mate score only
already_terminal_mate_only(result) == result.is_mate /\ result.mate_in = Some(0)

\* initial_result["bestmove"] is None
\*   or (initial_result["is_mate"] and initial_result.get("mate_in", 999) == 0)
already_terminal(result) ==
    \/ result.bestmove = Nothing
    \/ result.is_mate /\ result.mate_in = Some(0)

\* Mutant: the forced-mate test after a player's move left out
forced_mate_unchecked(result) == TRUE

\* not result["is_mate"] fails the position after a player's move
forced_mate(result) == result.is_mate

\* The for loop of the mate-in-N branch from index j on, up to its next
\* engine.analyze call, exception or end
RECURSIVE mate_n_loop(_, _, _, _)
mate_n_loop(w, c, n, j) ==
    IF j >= Len(moves)
    THEN [out |-> "end", w |-> w, cur |-> c, applied |-> n, i |-> j]
    ELSE Bind(DoApply(w, c, moves[j + 1]), LAMBDA w2 :
         IF w2.last.err # None
         THEN [out |-> "raise", w |-> w2, cur |-> c, applied |-> n, i |-> j]
         ELSE IF j = Len(moves) - 1
         THEN [out |-> "final", w |-> w2, cur |-> w2.last.dst,
               applied |-> n + 1, i |-> j]
         ELSE IF j % 2 = 0
         THEN [out |-> "check", w |-> w2, cur |-> w2.last.dst,
               applied |-> n + 1, i |-> j]
         ELSE mate_n_loop(w2, w2.last.dst, n + 1, j + 1))

Call(w, c, depth) == [fen |-> to_fen(w.heap, w.positions[c]), depth |-> depth]

\* Run the loop from index j and stop at what it reaches
Resume(j) ==
    \E o \in {mate_n_loop(World, cur, applied, j)} :
       /\ SetWorld(o.w)
       /\ cur' = o.cur
       /\ applied' = o.applied
       /\ i' = o.i
       /\ CASE o.out = "raise" ->
                 /\ Return(Caught(o.w.last.err))
                 /\ UNCHANGED calls
            [] o.out = "final" ->
                 /\ calls' = Append(calls, Call(o.w, o.cur, 10))
                 /\ pc' = "final"
                 /\ UNCHANGED verdict
            [] o.out = "check" ->
                 /\ calls' = Append(calls, Call(o.w, o.cur, max(15, puzzle.mate_in * 4)))
                 /\ pc' = "check"
                 /\ UNCHANGED verdict
            [] OTHER ->
                 /\ Return(Valid("Valid mate-in-N"))
                 /\ UNCHANGED calls

\* validate_puzzle up to its first engine.analyze call
Validate ==
    /\ pc = "start"
    /\ UNCHANGED <<engVars, mainVars>>
    /\ UNCHANGED <<puzzle, i, cur, applied, last, results>>
    /\ IF puzzle.fen = <<>> \/ puzzle.moves = <<>>
       THEN /\ Return(Invalid("Missing FEN or moves"))
            /\ UNCHANGED <<heap, positions, snap, moves, calls>>
       ELSE IF puzzle.moves_type # "str"
       THEN /\ Propagate("AttributeError")
            /\ UNCHANGED <<heap, positions, snap, moves, calls>>
       ELSE /\ moves' = split(puzzle.moves)
            /\ \E p \in {ChessPosition(heap, puzzle.fen)} :
                  IF p.err # None
                  THEN /\ Return(Caught(p.err))
                       /\ UNCHANGED <<heap, positions, snap, calls>>
                  ELSE /\ heap' = p.heap
                       /\ positions' = Append(positions, p.pos)
                       /\ snap' = Append(snap, Value(p.heap, p.pos))
                       /\ calls' = Append(calls, [fen |-> puzzle.fen, depth |-> 1])
                       /\ pc' = "initial"
                       /\ UNCHANGED verdict

\* From the answer to analyze(fen, depth=1) to the next analyze call or return
InitialResult(result) ==
    /\ pc = "initial"
    /\ UNCHANGED <<engVars, mainVars>>
    /\ results' = Append(results, result)
    /\ UNCHANGED <<puzzle, moves>>
    /\ IF already_terminal(result)
       THEN /\ Return(Invalid("Position is already checkmate before puzzle starts"))
            /\ UNCHANGED <<posVars, i, cur, applied, calls>>
       ELSE IF puzzle.mate_in = 1
       THEN IF Len(moves) < 1
            THEN /\ Return(Invalid("No moves specified for mate-in-1"))
                 /\ UNCHANGED <<posVars, i, cur, applied, calls>>
            ELSE \E w \in {DoApply(World, cur, moves[1])} :
                    /\ SetWorld(w)
                    /\ UNCHANGED <<i, cur>>
                    /\ IF w.last.err # None
                       THEN /\ Return(Caught(w.last.err))
                            /\ UNCHANGED <<applied, calls>>
                       ELSE /\ applied' = applied + 1
                            /\ calls' = Append(calls, Call(w, w.last.dst, 10))
                            /\ pc' = "mate1"
                            /\ UNCHANGED verdict
       ELSE Resume(0)

\* From the answer on the position after the single move to the return
Mate1Result(result) ==
    /\ pc = "mate1"
    /\ UNCHANGED <<engVars, mainVars>>
    /\ results' = Append(results, result)
    /\ UNCHANGED <<posVars, puzzle, moves, i, cur, applied, calls>>
    /\ CASE mated(result) = "true" -> Return(Valid("Valid mate-in-1"))
         [] mated(result) = "TypeError" -> Return(Caught("TypeError"))
         [] OTHER ->
              IF result.is_mate /\ abs(result.mate_in[1]) = 0
              THEN Return(Valid("Valid mate-in-1"))
              ELSE Return(InvalidAt("does not deliver checkmate", 1, moves[1]))

\* From the answer on the position after the last move to the return
FinalResult(result) ==
    /\ pc = "final"
    /\ UNCHANGED <<engVars, mainVars>>
    /\ results' = Append(results, result)
    /\ UNCHANGED <<posVars, puzzle, moves, i, cur, applied, calls>>
    /\ CASE mated(result) = "true" -> Return(Valid("Valid mate-in-N"))
         [] mated(result) = "TypeError" -> Return(Caught("TypeError"))
         [] OTHER -> Return(Invalid("Final position is not checkmate"))

\* From the answer on the position after a player's move to the next
\* analyze call or return
CheckResult(result) ==
    /\ pc = "check"
    /\ UNCHANGED <<engVars, mainVars>>
    /\ results' = Append(results, result)
    /\ UNCHANGED <<puzzle, moves>>
    /\ IF ~forced_mate(result)
       THEN /\ Return(InvalidAt("doesn't show forced mate", i + 1, moves[i + 1]))
            /\ UNCHANGED <<posVars, i, cur, applied, calls>>
       ELSE Resume(i + 1)

-----------------------------------------------------------------------------
(* main of validate_puzzles.py, generate_puzzle_dataset.py and             *)
(* generate_massive_puzzles.py, from the start of the engine on             *)

\* min(a, b)
min(a, b) == IF a <= b THEN a ELSE b

\* sum(xs)
RECURSIVE sum(_)
sum(xs) == IF xs = <<>> THEN 0 ELSE Head(xs) + sum(Tail(xs))

\* The options of a command line that the loops read
NoArgs == [count |-> 0, distribution |-> "", max_mate |-> 0, skip_validation |-> FALSE]

Counts == {1, 2, 10}
Distributions == {"balanced", "natural", "equal"}
MaxMates == {2}

\* parser.parse_args(): generate_puzzle_dataset.py has --count only, and
\* validate_puzzles.py none of the four
Args(script) ==
    CASE script = "generate_massive_puzzles" ->
            [count : Counts, distribution : Distributions, max_mate : MaxMates,
             skip_validation : BOOLEAN]
      [] script = "generate_puzzle_dataset" ->
            [count : Counts, distribution : {""}, max_mate : {0},
             skip_validation : {FALSE}]
      [] OTHER -> {NoArgs}

\* weights = {1: 35, 2: 30, 3: 20, 4: 10, 5: 4, 6: 1}
weights == <<35, 30, 20, 10, 4, 1>>

\* sum(weights[i] for i in range(1, args.max_mate + 1))
total_weight(max_mate) == sum(SubSeq(weights, 1, max_mate))

\* The keys of targets and collected
Depths(script, a) == IF script = "generate_puzzle_dataset" THEN 1..4 ELSE 1..a.max_mate

\* The distribution targets
Targets(script, a) ==
    CASE script = "generate_puzzle_dataset" ->
            <<(a.count * 40) \div 100, (a.count * 30) \div 100,
              (a.count * 20) \div 100, (a.count * 10) \div 100>>
      [] a.distribution = "balanced" ->
            [d \in 1..a.max_mate |->
                (a.count * (IF d <= Len(weights) THEN weights[d] ELSE 1))
                   \div total_weight(a.max_mate)]
      [] a.distribution = "equal" ->
            [d \in 1..a.max_mate |-> a.count \div a.max_mate]
      [] OTHER ->
            [d \in 1..a.max_mate |-> a.count]

\* What the position after the claimed moves of a streamed puzzle is
Finals == {"checkmate", "stalemate", "open"}

\* The puzzles stream_mate_puzzles / stream_puzzles may yield: any depth
\* from 1 on, up to max_mate in generate_massive_puzzles.py
StreamPuzzles(script, a) ==
    [mate_in : IF script = "generate_puzzle_dataset" THEN {1, 2, 5} ELSE 1..a.max_mate,
     final : Finals]

\* What the engine writes on `go depth 1` for a position of each kind
EngineAnswer(final) ==
    CASE final = "checkmate" ->
            <<Line(<<w_info, w_depth, <<"0">>, w_score, w_mate, <<"0">>>>),
              Line(<<w_bestmove, w_none>>)>>
      [] final = "stalemate" ->
            <<Line(<<w_info, w_depth, <<"0">>, w_score, w_cp, <<"0">>>>),
              Line(<<w_bestmove, w_none>>)>>
      [] OTHER ->
            <<Line(<<w_info, w_depth, <<"1">>, w_score, w_cp, <<"2", "5">>>>),
              Line(<<w_bestmove, <<"e", "2", "e", "4">>>>)>>

\* validate_checkmate(fen, moves) given the lines the engine answers with:
\* the read loop returns on the first line that starts with bestmove
RECURSIVE validate_checkmate(_)
validate_checkmate(lines) ==
    IF startswith(strip(Head(lines)), w_bestmove)
    THEN checkmate_return(strip(Head(lines)))
    ELSE validate_checkmate(Tail(lines))

\* is_valid of the loop: the first item of the tuple in
\* generate_puzzle_dataset.py, the value itself in generate_massive_puzzles.py
is_valid(r) == IF impl = "generate_puzzle_dataset" THEN r[1] ELSE r

\* The records and the answers the main of validate_puzzles.py is run on
MainPuzzles ==
    { [fen |-> Fen_BackRank, moves |-> <<"a", "1", "a", "8">>,
       moves_type |-> "str", mate_in |-> 1],
      [fen |-> Fen_BackRank,
       moves |-> <<"a", "1", "a", "7", " ", "g", "8", "f", "8", " ", "a", "7", "a", "8">>,
       moves_type |-> "str", mate_in |-> 2],
      [fen |-> Fen_BackRank, moves |-> <<"a", "1", "a", "8">>,
       moves_type |-> "list", mate_in |-> 1],
      [fen |-> <<>>, moves |-> <<"a", "1", "a", "8">>,
       moves_type |-> "str", mate_in |-> 1] }

MainAnswers ==
    { analyze(EngineAnswer("checkmate")),
      analyze(EngineAnswer("open")),
      analyze(<<Line(<<w_info, w_depth, <<"9">>, w_score, w_mate, <<"-", "1">>>>),
                Line(<<w_bestmove, <<"e", "2", "e", "4">>>>)>>) }

\* No main is running
NoMain ==
    /\ args = NoArgs
    /\ mpc = "idle"
    /\ streamed = 0
    /\ targets = <<>>
    /\ collected = <<>>
    /\ valid_puzzles = <<>>
    /\ processed = 0
    /\ invalid_count = 0
    /\ main_results = [valid |-> <<>>, invalid |-> <<>>]

\* From the start of the engine to the loop; the engine answers the handshake
MainStart ==
    /\ mpc = "start"
    /\ mpc' = "loop"
    /\ IF args.skip_validation
       THEN UNCHANGED <<epc, sent, waits, process>>
       ELSE /\ Send(IF impl = "generate_massive_puzzles"
                    THEN <<"uci", "setoption", "setoption", "isready">>
                    ELSE <<"uci", "isready">>)
            /\ waits' = <<[expected |-> w_uciok, found |-> TRUE],
                          [expected |-> w_readyok, found |-> TRUE]>>
            /\ process' = "running"
            /\ epc' = "ready"
    /\ IF impl = "validate_puzzles"
       THEN UNCHANGED <<targets, collected>>
       ELSE /\ targets' = Targets(impl, args)
            /\ collected' = [d \in Depths(impl, args) |-> 0]
    /\ UNCHANGED <<posVars, valVars, impl, n_lines, stream, eresult, analyses,
                   returned, bestmoves, stops, raised, args, streamed,
                   valid_puzzles, processed, invalid_count, main_results>>

\* validate_puzzles.py: the loop takes the next record and calls validate_puzzle
NextPuzzle(record) ==
    /\ impl = "validate_puzzles"
    /\ mpc = "loop"
    /\ pc = "idle"
    /\ streamed < MaxRecords
    /\ streamed' = streamed + 1
    /\ puzzle' = record
    /\ pc' = "start"
    /\ heap' = <<>>
    /\ positions' = <<>>
    /\ snap' = <<>>
    /\ last' = NoApply
    /\ moves' = <<>>
    /\ i' = 0
    /\ cur' = 1
    /\ calls' = <<>>
    /\ results' = <<>>
    /\ applied' = 0
    /\ verdict' = NoVerdict
    /\ UNCHANGED <<engVars, args, mpc, targets, collected, valid_puzzles,
                   processed, invalid_count, main_results>>

\* validate_puzzles.py: the tuple validate_puzzle returned is filed
Report ==
    /\ impl = "validate_puzzles"
    /\ mpc = "loop"
    /\ pc = "done"
    /\ pc' = "idle"
    /\ main_results' =
          IF verdict.valid
          THEN [main_results EXCEPT !.valid = Append(@, verdict.reason)]
          ELSE [main_results EXCEPT !.invalid = Append(@, verdict.reason)]
    /\ UNCHANGED <<posVars, engVars, puzzle, moves, i, cur, calls, results,
                   applied, verdict, args, mpc, streamed, targets, collected,
                   valid_puzzles, processed, invalid_count>>

\* validate_puzzles.py: an exception that leaves validate_puzzle leaves the
\* loop and main, no statement of main being in a try
Abort ==
    /\ impl = "validate_puzzles"
    /\ mpc = "loop"
    /\ pc = "raised"
    /\ mpc' = "aborted"
    /\ raised' = Exception("main", verdict.error)
    /\ UNCHANGED <<posVars, valVars, impl, epc, sent, n_lines, waits, stream,
                   eresult, analyses, returned, bestmoves, process, stops,
                   args, streamed, targets, collected, valid_puzzles,
                   processed, invalid_count, main_results>>

\* The generators: one iteration of the loop on the puzzle the stream yields
Collect(record) ==
    /\ impl # "validate_puzzles"
    /\ mpc = "loop"
    /\ streamed < MaxRecords
    /\ streamed' = streamed + 1
    /\ LET limited == impl = "generate_puzzle_dataset" \/ args.distribution # "natural"
           depth_key == IF impl = "generate_puzzle_dataset"
                        THEN min(record.mate_in, 4) ELSE record.mate_in
           answer == validate_checkmate(EngineAnswer(record.final))
           take == args.skip_validation \/ is_valid(answer)
       IN IF limited /\ Len(valid_puzzles) >= args.count
          THEN /\ mpc' = "after_loop"
               /\ UNCHANGED <<sent, analyses, bestmoves, returned, collected,
                              valid_puzzles, processed, invalid_count>>
          ELSE IF limited /\ collected[depth_key] >= targets[depth_key]
          THEN UNCHANGED <<mpc, sent, analyses, bestmoves, returned, collected,
                           valid_puzzles, processed, invalid_count>>
          ELSE /\ processed' = processed + 1
               /\ IF args.skip_validation
                  THEN UNCHANGED <<sent, analyses, bestmoves, returned>>
                  ELSE /\ Send(<<"ucinewgame", "isready", "position", "go">>)
                       /\ analyses' = analyses + 1
                       /\ bestmoves' = bestmoves + 1
                       /\ returned' = Some(answer)
               /\ IF take
                  THEN /\ valid_puzzles' = Append(valid_puzzles, record)
                       /\ collected' = [collected EXCEPT ![depth_key] = @ + 1]
                       /\ UNCHANGED invalid_count
                  ELSE /\ invalid_count' = invalid_count + 1
                       /\ UNCHANGED <<valid_puzzles, collected>>
               /\ UNCHANGED mpc
    /\ UNCHANGED <<posVars, valVars, impl, epc, n_lines, waits, stream, eresult,
                   process, stops, raised, args, targets, main_results>>

\* The input of the loop has no further record
EndOfInput ==
    /\ mpc = "loop"
    /\ pc = "idle"
    /\ mpc' = "after_loop"
    /\ UNCHANGED <<posVars, valVars, engVars, args, streamed, targets, collected,
                   valid_puzzles, processed, invalid_count, main_results>>

\* After the loop: the engine is stopped, then the output is written; the
\* generators leave by sys.exit(1) when they have collected nothing
Finish ==
    /\ mpc = "after_loop"
    /\ IF args.skip_validation THEN UNCHANGED engVars ELSE Stop
    /\ mpc' = IF impl # "validate_puzzles" /\ valid_puzzles = <<>>
              THEN "exit" ELSE "written"
    /\ UNCHANGED <<posVars, valVars, args, streamed, targets, collected,
                   valid_puzzles, processed, invalid_count, main_results>>

Init ==
    /\ heap = <<>>
    /\ positions = <<>>
    /\ snap = <<>>
    /\ last = NoApply
    /\ puzzle \in Puzzles
    /\ pc = "start"
    /\ moves = <<>>
    /\ i = 0
    /\ cur = 1
    /\ calls = <<>>
    /\ results = <<>>
    /\ applied = 0
    /\ verdict = NoVerdict
    /\ impl = "validate_puzzles"
    /\ NoSession
    /\ NoMain

Next ==
    \/ Validate
    \/ \E result \in AnalyzeResults : InitialResult(result)
    \/ \E result \in AnalyzeResults : Mate1Result(result)
    \/ \E result \in AnalyzeResults : CheckResult(result)
    \/ \E result \in AnalyzeResults : FinalResult(result)

Spec == Init /\ [][Next]_vars

-----------------------------------------------------------------------------
(* The position model on its own: any move applied to any position built *)

InitPos ==
    /\ \E fen \in StartFens :
          \E p \in {ChessPosition(<<>>, fen)} :
             /\ heap = p.heap
             /\ positions = <<p.pos>>
             /\ snap = <<Value(p.heap, p.pos)>>
    /\ last = NoApply
    /\ puzzle = NoPuzzle
    /\ pc = "idle"
    /\ moves = <<>>
    /\ i = 0
    /\ cur = 1
    /\ calls = <<>>
    /\ results = <<>>
    /\ applied = 0
    /\ verdict = NoVerdict
    /\ impl = "validate_puzzles"
    /\ NoSession
    /\ NoMain

Apply(src, uci) ==
    /\ Len(positions) <= MaxApplies
    /\ \E w \in {DoApply(World, src, uci)} : SetWorld(w)
    /\ UNCHANGED <<valVars, engVars, mainVars>>

NextPos == \E src \in 1..Len(positions), uci \in Moves : Apply(src, uci)

SpecPos == InitPos /\ [][NextPos]_vars

-----------------------------------------------------------------------------
(* An engine session on its own: the engine writes any line at any time *)

InitEngine ==
    /\ impl \in Impls
    /\ NoSession
    /\ NoMain
    /\ heap = <<>>
    /\ positions = <<>>
    /\ snap = <<>>
    /\ last = NoApply
    /\ puzzle = NoPuzzle
    /\ pc = "idle"
    /\ moves = <<>>
    /\ i = 0
    /\ cur = 1
    /\ calls = <<>>
    /\ results = <<>>
    /\ applied = 0
    /\ verdict = NoVerdict

NextEngine ==
    \/ Start /\ UNCHANGED <<posVars, valVars, mainVars>>
    \/ \E line \in HandshakeLines :
          WaitLine(line) /\ UNCHANGED <<posVars, valVars, mainVars>>
    \/ Analyze /\ UNCHANGED <<posVars, valVars, mainVars>>
    \/ ValidateCheckmate /\ UNCHANGED <<posVars, valVars, mainVars>>
    \/ \E raw \in StreamLines \cup BestLines :
          ReadLine(raw) /\ UNCHANGED <<posVars, valVars, mainVars>>
    \/ Exit /\ UNCHANGED <<posVars, valVars, mainVars>>
    \/ Stop /\ UNCHANGED <<posVars, valVars, mainVars>>

SpecEngine == InitEngine /\ [][NextEngine]_vars

-----------------------------------------------------------------------------
(* A run of a main: any records, the engine answering every command *)

InitMain ==
    /\ impl \in Impls
    /\ NoSession
    /\ args \in Args(impl)
    /\ mpc = "start"
    /\ streamed = 0
    /\ targets = <<>>
    /\ collected = <<>>
    /\ valid_puzzles = <<>>
    /\ processed = 0
    /\ invalid_count = 0
    /\ main_results = [valid |-> <<>>, invalid |-> <<>>]
    /\ heap = <<>>
    /\ positions = <<>>
    /\ snap = <<>>
    /\ last = NoApply
    /\ puzzle = NoPuzzle
    /\ pc = "idle"
    /\ moves = <<>>
    /\ i = 0
    /\ cur = 1
    /\ calls = <<>>
    /\ results = <<>>
    /\ applied = 0
    /\ verdict = NoVerdict

NextMain ==
    \/ MainStart
    \/ \E record \in MainPuzzles : NextPuzzle(record)
    \/ Validate
    \/ \E result \in MainAnswers : InitialResult(result)
    \/ \E result \in MainAnswers : Mate1Result(result)
    \/ \E result \in MainAnswers : CheckResult(result)
    \/ \E result \in MainAnswers : FinalResult(result)
    \/ Report
    \/ Abort
    \/ \E record \in StreamPuzzles(impl, args) : Collect(record)
    \/ EndOfInput
    \/ Finish

SpecMain == InitMain /\ [][NextMain]_vars

-----------------------------------------------------------------------------
(* Claims on validate_puzzle, checked under Spec *)

\* The answer says: no legal move, and a mate score at distance 0
ConfirmedMate(result) ==
    result.bestmove = Nothing /\ result.is_mate /\ result.mate_in = Some(0)

\* C1: for a record of claimed depth 1 whose start is not terminal,
\* validate_puzzle returns valid exactly when the answer on the position after
\* the single move has no best move and a mate score at distance 0.
C1_Mate1ValidIffConfirmedMate ==
    (pc = "done" /\ puzzle.mate_in = 1 /\ Len(results) = 2)
        => (verdict.valid <=> ConfirmedMate(results[2]))

\* C2: for a record of claimed depth N > 1, validate_puzzle returns valid only
\* if the position after the last claimed move was analysed and the answer
\* has no best move and a mate score at distance 0.
C2_MateNValidOnlyOnFinalMate ==
    (pc = "done" /\ puzzle.mate_in # 1 /\ verdict.valid)
        => /\ Len(moves) >= 1
           /\ applied = Len(moves)
           /\ Len(calls) >= 2
           /\ Len(results) = Len(calls)
           /\ calls[Len(calls)].fen = to_fen(heap, positions[cur])
           /\ ConfirmedMate(results[Len(results)])

\* C3: for claimed depth N > 1, each player's move (index 0, 2, 4, ...) applied
\* is followed by an analyze call on the position it gives; and an answer
\* without a forced mate on such a position that is not the last returns
\* invalid, naming that ply, with no later move applied and no later call.
C3_NoForcedMateStopsAtPly ==
    puzzle.mate_in # 1 =>
        /\ \A j \in 0..(applied - 1) :
              j % 2 = 0 =>
                  /\ (j \div 2) + 2 <= Len(calls)
                  /\ calls[(j \div 2) + 2].fen = to_fen(heap, positions[j + 2])
        /\ \A k \in 2..Len(results) :
              (2 * (k - 2) < Len(moves) - 1 /\ ~results[k].is_mate) =>
                  /\ pc = "done"
                  /\ verdict = InvalidAt("doesn't show forced mate",
                                         2 * (k - 2) + 1, moves[2 * (k - 2) + 1])
                  /\ applied = 2 * (k - 2) + 1
                  /\ Len(calls) = k
                  /\ Len(results) = k

\* C3 witness: the second checkpoint of a four-move record fails
C3_Witness ==
    /\ pc = "done"
    /\ Len(moves) = 4
    /\ verdict.reason = "doesn't show forced mate"
    /\ verdict.ply = 3
    /\ applied = 3
    /\ results[2].is_mate
    /\ ~results[3].is_mate

\* C4: when the depth-1 analysis of the starting FEN has no best move,
\* validate_puzzle returns invalid (already terminal) with no claimed move
\* applied and no further analyze call.
C4_AlreadyTerminalBeforeMoves ==
    (Len(results) >= 1 /\ results[1].bestmove = Nothing) =>
        /\ pc = "done"
        /\ verdict = Invalid("Position is already checkmate before puzzle starts")
        /\ applied = 0
        /\ last = NoApply
        /\ Len(positions) = 1
        /\ Len(calls) = 1
        /\ Len(results) = 1

\* C4 witness: a four-move record rejected on its starting position
C4_Witness ==
    /\ pc = "done"
    /\ Len(moves) = 4
    /\ Len(results) = 1
    /\ results[1].bestmove = Nothing
    /\ ~verdict.valid

\* C5: a record whose FEN is empty or whose moves string splits into no move
\* is returned invalid (missing FEN or moves) and no analyze call is issued.
C5_EmptyRecordRejectedWithoutOracle ==
    (puzzle.fen = <<>> \/ split(puzzle.moves) = <<>>) =>
        /\ calls = <<>>
        /\ pc = "done" => verdict = Invalid("Missing FEN or moves")

\* C6: for claimed depth N > 1, validate_puzzle returns valid only if the mate
\* distances answered at the successive intermediate checkpoints are strictly
\* decreasing in magnitude.
C6_ValidOnlyIfDepthsDecrease ==
    (pc = "done" /\ puzzle.mate_in # 1 /\ verdict.valid) =>
        \A a, b \in 2..(Len(results) - 1) :
            (a < b /\ results[a].mate_in # Nothing /\ results[b].mate_in # Nothing)
                => abs(results[a].mate_in[1]) > abs(results[b].mate_in[1])

-----------------------------------------------------------------------------
(* Claims on ChessPosition, checked under SpecPos *)

\* The latest apply_uci_move call built a position
Applied == last.src # 0 /\ last.err = None

\* Row and column, in a board value, of the square a move names at k, k + 1
RowOf(uci, k) == 9 - int(<<uci[k + 1]>>)
ColOf(uci, k) == IndexIn(LowerLetters, uci[k])

\* Boards before and after the latest call, as values taken at construction
Before == snap[last.src]
After == snap[last.dst]
FromRow == RowOf(last.move, 1)
FromCol == ColOf(last.move, 1)
ToRow == RowOf(last.move, 3)
ToCol == ColOf(last.move, 3)
Mover == Before.board[FromRow][FromCol]

\* The position fields the claims compare (all but the cached fen text)
Fields(v) == [board |-> v.board, turn |-> v.turn, castling |-> v.castling,
              en_passant |-> v.en_passant, halfmove |-> v.halfmove,
              fullmove |-> v.fullmove]

\* C7: apply_uci_move leaves the position it is called on unchanged, now and
\* after any later call: every position object still has the board, side to
\* move, castling rights, en-passant target and clocks it was built with, and
\* no two boards share a row.
C7_ApplyLeavesInputUntouched ==
    /\ \A k \in 1..Len(positions) : Value(heap, positions[k]) = snap[k]
    /\ \A k, l \in 1..Len(positions) :
          \A r \in 1..Len(positions[k].board), q \in 1..Len(positions[l].board) :
              (k # l \/ r # q) => positions[k].board[r] # positions[l].board[q]

\* C7 witness: a move applied to the result of an earlier move, both of
\* which changed the board
C7_Witness ==
    /\ Len(positions) = 3
    /\ Applied
    /\ last.src = 2
    /\ snap[2].board # snap[1].board
    /\ snap[3].board # snap[2].board

\* C8: for every position decoded or built by apply_uci_move, decoding its
\* to_fen() gives the same board, side, castling rights, en-passant target and
\* clocks, and encoding that again gives the same FEN.
C8_FenRoundTrip ==
    \A k \in 1..Len(positions) :
        LET f == to_fen(heap, positions[k])
            d == ChessPosition(<<>>, f)
        IN /\ d.err = None
           /\ Fields(Value(d.heap, d.pos)) = Fields(Value(heap, positions[k]))
           /\ to_fen(d.heap, d.pos) = f

\* C8 witness: a castled position, its clock at two digits and two rights left
C8_Witness ==
    /\ Applied
    /\ After.halfmove = 10
    /\ After.castling = <<"k", "q">>
    /\ After.board[8] = <<"R", ".", ".", ".", ".", "R", "K", ".">>

\* The latest call castled: a king on its e-file home square moved two files
\* along its rank, a rook of its side standing on the corner of that wing
Castled ==
    /\ Applied
    /\ Len(last.move) = 4
    /\ \/ Mover = "K" /\ FromRow = 8
       \/ Mover = "k" /\ FromRow = 1
    /\ FromCol = 5
    /\ ToRow = FromRow
    /\ ToCol \in {3, 7}
    /\ Before.board[FromRow][IF ToCol = 7 THEN 8 ELSE 1]
          = (IF Mover = "K" THEN "R" ELSE "r")

\* C9: castling, for either side and wing, puts the king on its destination
\* and the rook from its corner on the square the king passed over, leaves
\* the king's and the rook's squares empty and clears both rights of the side.
C9_CastlingMovesKingAndRook ==
    Castled =>
        LET corner == IF ToCol = 7 THEN 8 ELSE 1
            passed == (FromCol + ToCol) \div 2
        IN /\ After.board[ToRow][ToCol] = Mover
           /\ After.board[FromRow][passed] = Before.board[FromRow][corner]
           /\ After.board[FromRow][FromCol] = "."
           /\ After.board[FromRow][corner] = "."
           /\ \A k \in 1..Len(After.castling) :
                 After.castling[k] \notin
                     (IF Mover = "K" THEN {"K", "Q"} ELSE {"k", "q"})

\* C9 witness: black castles queenside after a white move
C9_Witness ==
    /\ Castled
    /\ Mover = "k"
    /\ ToCol = 3
    /\ last.src = 2
    /\ \E k \in 1..Len(Before.castling) : Before.castling[k] = "q"

\* The rook squares a castling move writes besides source and destination
RookSquares ==
    IF Mover \in {"K", "k"} /\ abs(ToCol - FromCol) = 2
    THEN IF ToCol > FromCol THEN {<<FromRow, 8>>, <<FromRow, 6>>}
         ELSE {<<FromRow, 1>>, <<FromRow, 4>>}
    ELSE {}

\* Squares of the board on which the latest call changed something
Changed == { sq \in (1..8) \X (1..8) :
                After.board[sq[1]][sq[2]] # Before.board[sq[1]][sq[2]] }

\* C10: a pawn moved to the en-passant target of the position it is applied
\* to stands on the destination, the square on the source's rank and the
\* destination's file is empty, the source is empty and nothing else changes;
\* a move to another square changes no square other than source, destination
\* and the rook squares of castling.
C10_EnPassantRemovesPawnBesideSource ==
    Applied =>
        IF <<last.move[3], last.move[4]>> = Before.en_passant
        THEN Mover \in {"P", "p"} =>
                /\ After.board[ToRow][ToCol] = Mover
                /\ After.board[FromRow][ToCol] = "."
                /\ After.board[FromRow][FromCol] = "."
                /\ Changed \subseteq {<<ToRow, ToCol>>, <<FromRow, ToCol>>,
                                      <<FromRow, FromCol>>}
        ELSE Changed \subseteq
                {<<FromRow, FromCol>>, <<ToRow, ToCol>>} \cup RookSquares

\* C10 witness: a pawn advanced two squares by one call is captured en
\* passant by the next
C10_Witness ==
    /\ Applied
    /\ last.src = 2
    /\ snap[1].en_passant # Before.en_passant
    /\ <<last.move[3], last.move[4]>> = Before.en_passant
    /\ Mover = "p"
    /\ Before.board[FromRow][ToCol] = "P"
    /\ After.board[FromRow][ToCol] = "."
    /\ After.board[ToRow][ToCol] = "p"

\* The latest call carried a promotion letter
Promotes == Len(last.move) > 4

\* C11: a move with a fifth promotion letter, made by a piece, leaves on the
\* destination the promoted kind in the mover's colour (upper case for a
\* white mover, lower case for a black one) and leaves the source empty.
C11_PromotionKeepsSide ==
    (Applied /\ Promotes /\ Mover # ".") =>
        /\ lower(After.board[ToRow][ToCol]) = lower(last.move[5])
        /\ isupper(After.board[ToRow][ToCol]) <=> isupper(Mover)
        /\ After.board[FromRow][FromCol] = "."

\* C11 witness: a black pawn promotes to a knight, capturing on the corner
C11_Witness ==
    /\ Applied
    /\ Promotes
    /\ Mover = "p"
    /\ last.move[5] = "n"
    /\ Before.board[ToRow][ToCol] = "R"
    /\ After.board[ToRow][ToCol] = "n"
    /\ After.board[FromRow][FromCol] = "."

\* The castling rights of a field value, as a set of letters
Rights(castling) == { castling[k] : k \in 1..Len(castling) } \ {"-"}

\* The right tied to a corner square on which the given piece is a rook of
\* the corner's side
CornerRight(sq, piece) ==
    IF sq = <<"a", "1">> /\ piece = "R" THEN {"Q"}
    ELSE IF sq = <<"h", "1">> /\ piece = "R" THEN {"K"}
    ELSE IF sq = <<"a", "8">> /\ piece = "r" THEN {"q"}
    ELSE IF sq = <<"h", "8">> /\ piece = "r" THEN {"k"}
    ELSE {}

\* C12: after apply a side whose king moved has lost both rights; the right
\* tied to a corner is lost if a rook moved from it or a rook standing on it
\* was captured; every other right is kept; no right at all is written "-".
C12_CastlingRightsRecomputed ==
    (Applied /\ Len(last.move) = 4) =>
        LET lost == (IF Mover = "K" THEN {"K", "Q"} ELSE {})
                    \cup (IF Mover = "k" THEN {"k", "q"} ELSE {})
                    \cup CornerRight(Slice(last.move, 0, 2), Mover)
                    \cup CornerRight(Slice(last.move, 2, 4),
                                     Before.board[ToRow][ToCol])
        IN /\ Rights(After.castling) = Rights(Before.castling) \ lost
           /\ (Rights(After.castling) = {}) <=> (After.castling = <<"-">>)

\* C13: after apply the halfmove clock is 0 when the piece that stood on the
\* source was a pawn or the destination held a piece, whatever the clock
\* was; otherwise it is the prior clock plus 1.
C13_HalfmoveClockReset ==
    Applied =>
        After.halfmove =
            IF Mover \in {"P", "p"} \/ Before.board[ToRow][ToCol] # "."
            THEN 0 ELSE Before.halfmove + 1

\* C14: every apply flips the side to move, and the fullmove number of the
\* result is the prior one plus 1 when black was to move, unchanged when
\* white was.
C14_TurnFlipsFullmoveCountsBlack ==
    Applied =>
        /\ Before.turn \in {<<"w">>, <<"b">>}
        /\ After.turn \in {<<"w">>, <<"b">>}
        /\ After.turn # Before.turn
        /\ After.fullmove = Before.fullmove
                            + (IF Before.turn = <<"b">> THEN 1 ELSE 0)

\* C14 witness: a black move following a white one, the number advanced once
C14_Witness ==
    /\ Applied
    /\ last.src = 2
    /\ snap[1].turn = <<"w">>
    /\ Before.turn = <<"b">>
    /\ Before.fullmove = snap[1].fullmove
    /\ After.fullmove = snap[1].fullmove + 1
    /\ After.turn = <<"w">>

\* C15: after apply the en-passant target is set exactly when the moved piece
\* is a pawn that advanced two ranks, naming the square of the pawn's file
\* midway between source and destination; after any other move it is "-".
C15_EnPassantTargetOnlyAfterDoubleAdvance ==
    (Applied /\ Mover # ".") =>
        After.en_passant =
            IF Mover \in {"P", "p"} /\ abs(ToRow - FromRow) = 2
            THEN <<last.move[1]>>
                 \o str((int(<<last.move[2]>>) + int(<<last.move[4]>>)) \div 2)
            ELSE <<"-">>

\* C15 witness: the target set by a two-rank advance is cleared by the next
\* move
C15_Witness ==
    /\ Applied
    /\ last.src = 2
    /\ snap[1].en_passant = <<"d", "6">>
    /\ Before.en_passant = <<"e", "3">>
    /\ After.en_passant = <<"-">>

\* C16: apply on a move whose source square is empty fails and builds no
\* new position.
C16_EmptySourceFails ==
    (last.src # 0 /\ Len(last.move) = 4 /\ Mover = ".") =>
        /\ last.err # None
        /\ last.dst = 0

\* Letters that name a piece in a FEN board field
PieceLetters == {"P", "N", "B", "R", "Q", "K", "p", "n", "b", "r", "q", "k"}

\* Squares a rank of a FEN board field expands to
RECURSIVE RankWidth(_)
RankWidth(rank) ==
    IF Len(rank) = 0 THEN 0
    ELSE (IF isdigit(Head(rank)) THEN int(<<Head(rank)>>) ELSE 1)
         + RankWidth(Tail(rank))

\* The board field of a non-blank FEN is malformed: not 8 ranks, a rank not
\* 8 squares wide, or a letter that names no piece
MalformedBoard(fen) ==
    LET ranks == SplitOn(split(fen)[1], "/")
    IN \/ Len(ranks) # 8
       \/ \E k \in 1..Len(ranks) :
             \/ RankWidth(ranks[k]) # 8
             \/ \E j \in 1..Len(ranks[k]) :
                   ~isdigit(ranks[k][j]) /\ ranks[k][j] \notin PieceLetters

\* C17: a record whose FEN has a malformed board field builds no position,
\* has no move applied, and is returned invalid.
C17_MalformedFenRejected ==
    (split(puzzle.fen) # <<>> /\ MalformedBoard(puzzle.fen)) =>
        /\ positions = <<>>
        /\ applied = 0
        /\ pc = "done" => ~verdict.valid

-----------------------------------------------------------------------------
(* Claims on the engine session, checked under SpecEngine *)

\* The integers a streamed line carries as a score of the given kind: the
\* word after "score" is the kind and the word after that is an integer
CarriedBy(line, kind) ==
    LET parts == split(line)
    IN { int(parts[k + 2]) :
            k \in { j \in 1..(Len(parts) - 2) :
                       /\ parts[1] = w_info
                       /\ parts[j] = w_score
                       /\ parts[j + 1] = kind
                       /\ IsIntStr(parts[j + 2]) } }

\* The integer carried by the last line of lines that carries one of the kind
LastCarried(lines, kind) ==
    LET carriers == { k \in 1..Len(lines) : CarriedBy(lines[k], kind) # {} }
    IN IF carriers = {} THEN Nothing
       ELSE LET k == CHOOSE k \in carriers : \A j \in carriers : j <= k
            IN Some(CHOOSE v \in CarriedBy(lines[k], kind) : TRUE)

\* analyze has returned from its latest call
AnalyzeReturned ==
    impl = "validate_puzzles" /\ epc = "ready" /\ returned # Nothing

\* C18: when analyze returns, mate_in is the integer of the last well-formed
\* mate-score line streamed before the bestmove line and score_cp that of
\* the last well-formed centipawn-score line, None when there was none.
C18_LastScoreLineWins ==
    AnalyzeReturned =>
        /\ returned[1].mate_in = LastCarried(stream, w_mate)
        /\ returned[1].score_cp = LastCarried(stream, w_cp)

\* C18 witness: a second analysis whose two mate-score lines differ
C18_Witness ==
    /\ AnalyzeReturned
    /\ analyses = 2
    /\ Len(stream) = 2
    /\ CarriedBy(stream[1], w_mate) = {2}
    /\ CarriedBy(stream[2], w_mate) = {-1}
    /\ returned[1].mate_in = Some(-1)

\* A command of the given names has been sent
Sent(names) == \E k \in 1..Len(sent) : sent[k] \in names

\* C19: the readiness probe is sent only after uciok was received for the
\* initialization command, and no position or search command is sent before
\* readyok was received for the probe.
C19_HandshakeOrder ==
    /\ Sent({"isready"}) =>
          /\ Len(waits) >= 1
          /\ waits[1] = [expected |-> w_uciok, found |-> TRUE]
    /\ Sent({"position", "go"}) =>
          /\ Len(waits) >= 2
          /\ waits[2] = [expected |-> w_readyok, found |-> TRUE]

\* C20: every wait that has ended saw its token, or else it ended the
\* session: it is the last wait and nothing was sent after it.
C20_WaitEndsWithTokenOrTimeout ==
    \A k \in 1..Len(waits) :
        \/ waits[k].found
        \/ /\ k = Len(waits)
           /\ epc = "timeout"

\* A streamed line with a score token whose kind is mate or cp but whose
\* value is missing or not an integer
Unparseable(line) ==
    LET parts == split(line)
    IN /\ CarriedBy(line, w_mate) = {}
       /\ CarriedBy(line, w_cp) = {}
       /\ \E k \in 1..(Len(parts) - 1) :
             parts[k] = w_score /\ parts[k + 1] \in {w_mate, w_cp}

\* The result dict after the read loop has taken the given lines in turn
RECURSIVE ResultOf(_, _)
ResultOf(res, lines) ==
    IF Len(lines) = 0 THEN res
    ELSE ResultOf(read_step(res, strip(Head(lines))), Tail(lines))

\* C21: a malformed line streamed during analyze is skipped: the result is,
\* field for field, what it is when the malformed lines are left out of the
\* stream, and analyze still returns at the bestmove line.
C21_MalformedLineSkipped ==
    (impl = "validate_puzzles" /\ epc \in {"go", "ready"} /\ analyses > 0) =>
        LET kept == SelectSeq(stream, LAMBDA line : ~Unparseable(line))
            skipped == ResultOf(EmptyResult, kept)
        IN IF epc = "go" THEN eresult = skipped
           ELSE /\ returned # Nothing
                /\ [returned[1] EXCEPT !.bestmove = Nothing] = skipped

\* The kind of score the last score line of lines carried: mate, cp or none
LastScoreKind(lines) ==
    LET carriers == { k \in 1..Len(lines) :
                         CarriedBy(lines[k], w_mate) \cup CarriedBy(lines[k], w_cp) # {} }
    IN IF carriers = {} THEN "none"
       ELSE LET k == CHOOSE k \in carriers : \A j \in carriers : j <= k
            IN IF CarriedBy(lines[k], w_mate) # {} THEN "mate" ELSE "cp"

\* C27: when analyze returns, is_mate is true exactly when the most recent
\* score line streamed before the bestmove line carried a mate score.
C27_IsMateFollowsLastScoreLine ==
    (AnalyzeReturned /\ \A k \in 1..Len(stream) : ~Unparseable(stream[k])) =>
        (returned[1].is_mate <=> LastScoreKind(stream) = "mate")

\* C28: for claimed depth N > 1, an intermediate checkpoint is passed (the
\* loop goes on to a further analyze call) only if the mate score answered
\* on it is not in favour of the side to move: a reported distance is never
\* positive.
C28_CheckpointNeedsNegativeMate ==
    puzzle.mate_in # 1 =>
        \A k \in 2..Len(results) :
            (/\ 2 * (k - 2) < Len(moves) - 1
             /\ Len(calls) > k
             /\ results[k].mate_in # Nothing)
                => results[k].mate_in[1] <= 0

\* Squares of a board value holding a piece of the given side
PiecesOf(board, white) ==
    { sq \in (1..Len(board)) \X (1..8) :
         /\ sq[2] <= Len(board[sq[1]])
         /\ board[sq[1]][sq[2]] # "."
         /\ isupper(board[sq[1]][sq[2]]) = white }

\* A board value of 8 ranks of 8 squares
EightByEight(board) ==
    Len(board) = 8 /\ \A r \in 1..8 : Len(board[r]) = 8

\* C29: on an 8x8 position, a move whose source holds a piece never
\* increases the number of pieces of either side, removes at most one piece
\* in all, and leaves the board 8 ranks of 8 squares.
C29_PiecesConserved ==
    (Applied /\ EightByEight(Before.board) /\ Mover # ".") =>
        /\ EightByEight(After.board)
        /\ \A white \in BOOLEAN :
              Cardinality(PiecesOf(After.board, white))
                  <= Cardinality(PiecesOf(Before.board, white))
        /\ Cardinality(PiecesOf(After.board, TRUE) \cup PiecesOf(After.board, FALSE))
              >= Cardinality(PiecesOf(Before.board, TRUE)
                             \cup PiecesOf(Before.board, FALSE)) - 1


\* How many of the commands sent are the command named
Count(commands, name) == Cardinality({ k \in 1..Len(commands) : commands[k] = name })

\* C22: shutdown is idempotent and safe: every stop() call, whatever the
\* state of the session it is made on (never started, started, already
\* stopped, or its engine process gone), lets no exception through and leaves
\* the session without a process; made on a session that holds no process it
\* sends nothing; and the termination command is sent at most once.
C22_StopIdempotentAndSafe ==
    [][stops' = stops + 1 =>
          /\ raised'.call # "stop"
          /\ process' = None
          /\ process = None => sent' = sent
          /\ Count(sent', "quit") <= 1]_vars

\* The reset, set-position and search commands among those sent
SearchCommands == SelectSeq(sent, LAMBDA c : c \in {"ucinewgame", "position", "go"})

\* The call made last is still running
InCall == epc \in {"vc_readyok", "go"}

\* C25: on one session, the reset, set-position and search commands of every
\* analyze / validate_checkmate call are sent in that order; every call that
\* has returned a value has consumed the bestmove line of its own search, so
\* that a search's terminal line is unread only while the read loop of the
\* call that sent the search is running, and a value is returned only by a
\* call that consumed a bestmove line.
C25_OneSearchAtATime ==
    /\ \A k \in 1..Len(SearchCommands) :
          SearchCommands[k] = <<"ucinewgame", "position", "go">>[((k - 1) % 3) + 1]
    /\ bestmoves = analyses - (IF InCall THEN 1 ELSE 0)
    /\ Count(sent, "go") - bestmoves = (IF epc = "go" THEN 1 ELSE 0)
    /\ returned # Nothing => bestmoves > 0

\* Two calls made one after the other on a session have both returned, the
\* second after score lines of its own
C25_Witness ==
    /\ analyses = 2
    /\ bestmoves = 2
    /\ epc = "ready"
    /\ Len(stream) > 0
    /\ Count(sent, "go") = 2


-----------------------------------------------------------------------------
(* Claims on the errors of validate_puzzle, checked under Spec *)

\* C24: for every record and every answer of the engine, validate_puzzle
\* does not raise: a record in error (malformed FEN, illegal or malformed
\* move, invalid record) is answered by an invalid verdict with a non-empty
\* reason, and no exception leaves the call.
C24_ValidatePuzzleNeverRaises ==
    /\ pc # "raised"
    /\ (pc = "done" /\ ~verdict.valid) => verdict.reason # ""


-----------------------------------------------------------------------------
(* Claims on the mains, checked under SpecMain *)

\* main has ended: its output written, left by sys.exit, or left by an
\* exception
Ended == mpc \in {"written", "exit", "aborted"}

\* C23: once the engine session of a run has been started, the run does not
\* end, on any of its exit paths (normal completion, sys.exit, an exception
\* raised while a record is validated or reported), without having executed
\* the session's stop(): the process was told to quit and is no longer held.
C23_EveryExitStopsEngine ==
    (Ended /\ Count(sent, "uci") > 0) => (stops > 0 /\ process = None)

\* The puzzles a generator has written to its output file
Written == IF impl # "validate_puzzles" /\ mpc = "written" THEN valid_puzzles ELSE <<>>

\* C26: with Stockfish validation enabled, every puzzle a generator writes to
\* its output is one whose position after the claimed moves is checkmate; a
\* puzzle whose final position has no legal move without being mate
\* (stalemate) is never among them.
C26_OnlyCheckmatesWritten ==
    ~args.skip_validation =>
        \A k \in 1..Len(Written) : Written[k].final = "checkmate"

\* C30: in the collection loop of the generators, for every distribution and
\* every stream, the puzzles collected never outnumber the --count target
\* and, for every depth key d, collected[d] never exceeds targets[d].
C30_CollectionWithinTargets ==
    impl # "validate_puzzles" =>
        /\ Len(valid_puzzles) <= args.count
        /\ \A d \in DOMAIN collected : collected[d] <= targets[d]

=============================================================================
